---- MODULE Spec2Model ----
(***************************************************************************)
(* LockMouseToMonitor (src/src/main.rs): the startup sequence of main      *)
(* (monitor enumeration, selection, initial lock) and its polling loop,    *)
(* one action per loop iteration, against an abstract platform (cursor     *)
(* position, key states, MonitorFromPoint, ClipCursor).                    *)
(*                                                                         *)
(* Option<T> is a sequence: <<>> is None and <<v>> is Some(v).             *)
(* A RECT is a record [left, top, right, bottom]; a POINT is [x, y].       *)
(* Coordinates stay far from the i32 limits, so rc.left + 1 and            *)
(* rc.right - 1 never overflow here.                                       *)
(***************************************************************************)
EXTENDS Integers, Sequences, FiniteSets

VARIABLES
    pc,                  \* position in main: "start", "prompt" (main.rs:117),
                         \* "sleep" (main.rs:158), "loop" (main.rs:161), "exited"
    monitors,            \* main.rs:92   the catalog, sorted by left
    current_monitor_idx, \* main.rs:99   Option<usize> (0-based)
    input,               \* main.rs:118  the line read, trimmed
    prev_ctrl,           \* main.rs:136
    release_on_exit,     \* main.rs:137
    clipped,             \* main.rs:138
    current_rect,        \* main.rs:139  Option<RECT>
    platformClip,        \* the platform's clip rectangle, Option<RECT>
    cmds,                \* the ClipCursor calls of the last step, in order
    clipIssued,          \* whether ClipCursor has been called since process start
    switched,            \* whether the last polled iteration changed current_rect
    step,                \* the last step taken
    tick,                \* what the last loop iteration polled
    pre,                 \* the loop state at the start of the last iteration
    geo,                 \* a (point, rectangle) pair handed to at_rect_edge
    geoOut               \* Option<bool>: what at_rect_edge answered for geo

vars == <<pc, monitors, current_monitor_idx, input, prev_ctrl, release_on_exit,
          clipped, current_rect, platformClip, cmds, clipIssued, switched, step,
          tick, pre, geo, geoOut>>

----------------------------------------------------------------------------
(* Bounds of the model *)

\* at_rect_edge on its own: rectangles have sides of 1 .. MaxSide, points
\* lie up to MaxSide / 2 + 1 beyond them
MaxSide == 5

\* cursor x coordinates are 0 .. MaxX
MaxX == 8
\* cursor y coordinates are 1 .. MaxY
MaxY == 2
\* the line typed at the prompt has at most MaxLen characters
MaxLen == 2

----------------------------------------------------------------------------
(* Geometry *)

Rect(l, t, r, b) == [left |-> l, top |-> t, right |-> r, bottom |-> b]

Point(x, y) == [x |-> x, y |-> y]

Points == {Point(x, y) : x \in 0..MaxX, y \in 1..MaxY}

\* the monitor layouts the platform may enumerate, in enumeration order
Layouts ==
    { <<>>,
      <<Rect(0, 0, 4, 4)>>,
      <<Rect(4, 0, 8, 4), Rect(0, 0, 4, 4)>>,
      <<Rect(0, 0, 4, 4), Rect(5, 0, 9, 4)>> }

\* mutant: the right and bottom sides taken as inside
point_in_rect_Closed(pt, rc) ==
    pt.x >= rc.left /\ pt.x <= rc.right /\ pt.y >= rc.top /\ pt.y <= rc.bottom

point_in_rect(pt, rc) ==
    pt.x >= rc.left /\ pt.x < rc.right /\ pt.y >= rc.top /\ pt.y < rc.bottom

\* mutant: no margin on the right and bottom sides
at_rect_edge_NoMargin(pt, rc) ==
    \/ pt.x <= rc.left + 1
    \/ pt.x >= rc.right
    \/ pt.y <= rc.top + 1
    \/ pt.y >= rc.bottom

at_rect_edge(pt, rc) ==
    \/ pt.x <= rc.left + 1
    \/ pt.x >= rc.right - 1
    \/ pt.y <= rc.top + 1
    \/ pt.y >= rc.bottom - 1

\* a POINT is "nearer" to a RECT the smaller this is: the squared distance
\* from the point to the rectangle's pixels (0 when the point is inside)
Dist2(pt, rc) ==
    LET dx == IF pt.x < rc.left THEN rc.left - pt.x
              ELSE IF pt.x >= rc.right THEN pt.x - (rc.right - 1) ELSE 0
        dy == IF pt.y < rc.top THEN rc.top - pt.y
              ELSE IF pt.y >= rc.bottom THEN pt.y - (rc.bottom - 1) ELSE 0
    IN  dx * dx + dy * dy

----------------------------------------------------------------------------
(* Startup: catalog and selection *)

RECURSIVE InsertByLeft(_, _)
\* m goes after every entry whose key is <= its own: the sort is stable
InsertByLeft(m, sorted) ==
    IF sorted = <<>> THEN <<m>>
    ELSE IF Head(sorted).left <= m.left
         THEN <<Head(sorted)>> \o InsertByLeft(m, Tail(sorted))
         ELSE <<m>> \o sorted

RECURSIVE SortByLeft(_)
SortByLeft(ms) ==
    IF ms = <<>> THEN <<>>
    ELSE InsertByLeft(ms[Len(ms)], SortByLeft(SubSeq(ms, 1, Len(ms) - 1)))

\* EnumDisplayMonitors hands over the layout; the result is sorted by left
get_all_monitors(layout) == SortByLeft(layout)

\* Option<usize>, 0-based: the first catalog entry containing the cursor
get_current_monitor_index(ms, got, pt) ==
    IF ~got THEN <<>>
    ELSE LET hits == {i \in 1..Len(ms) : point_in_rect(pt, ms[i])}
         IN  IF hits = {} THEN <<>>
             ELSE <<(CHOOSE i \in hits : \A j \in hits : i <= j) - 1>>

\* the characters a typed line is made of
Alphabet == {"0", "1", "2", "3", "x", " ", "+"}

Lines == UNION {[1..n -> Alphabet] : n \in 0..MaxLen}

Digits == {"0", "1", "2", "3", "4", "5", "6", "7", "8", "9"}

DigitVal(c) ==
    CASE c = "0" -> 0 [] c = "1" -> 1 [] c = "2" -> 2 [] c = "3" -> 3
      [] c = "4" -> 4 [] c = "5" -> 5 [] c = "6" -> 6 [] c = "7" -> 7
      [] c = "8" -> 8 [] c = "9" -> 9

RECURSIVE TrimStart(_)
TrimStart(s) ==
    IF s # <<>> /\ Head(s) = " " THEN TrimStart(Tail(s)) ELSE s

RECURSIVE TrimEnd(_)
TrimEnd(s) ==
    IF s # <<>> /\ s[Len(s)] = " " THEN TrimEnd(SubSeq(s, 1, Len(s) - 1)) ELSE s

\* str::trim
Trim(s) == TrimEnd(TrimStart(s))

RECURSIVE DigitsValue(_, _)
\* Option<nat>: the value of a digit string, None at the first non-digit
DigitsValue(s, acc) ==
    IF s = <<>> THEN <<acc>>
    ELSE IF Head(s) \notin Digits THEN <<>>
         ELSE DigitsValue(Tail(s), acc * 10 + DigitVal(Head(s)))

\* str::parse::<usize>: Result as an Option; one leading "+" is accepted,
\* at least one digit is required, and nothing but digits may follow.
\* A line of MaxLen characters stays far below usize::MAX.
parse_usize(s) ==
    LET body == IF s # <<>> /\ Head(s) = "+" THEN Tail(s) ELSE s
    IN  IF body = <<>> THEN <<>> ELSE DigitsValue(body, 0)

\* mutant: an invalid number falls back to the current monitor
initial_rect_Fallback(inp, ms, idx) ==
    LET n == parse_usize(inp)
    IN  IF inp # <<>> /\ n # <<>> /\ n[1] > 0 /\ n[1] <= Len(ms)
        THEN [fatal |-> FALSE, rect |-> <<ms[n[1]]>>]
        ELSE [fatal |-> FALSE,
              rect |-> IF idx = <<>> THEN <<>> ELSE <<ms[idx[1] + 1]>>]

\* mutant: the typed number is taken as a 0-based index
initial_rect_ZeroBased(inp, ms, idx) ==
    IF inp = <<>>
    THEN [fatal |-> FALSE,
          rect |-> IF idx = <<>> THEN <<>> ELSE <<ms[idx[1] + 1]>>]
    ELSE LET n == parse_usize(inp)
         IN  IF n # <<>> /\ n[1] < Len(ms)
             THEN [fatal |-> FALSE, rect |-> <<ms[n[1] + 1]>>]
             ELSE [fatal |-> TRUE, rect |-> <<>>]

\* main.rs:120-134: [fatal, rect]; fatal is the "Invalid monitor number!" return
initial_rect(inp, ms, idx) ==
    IF inp = <<>>
    THEN [fatal |-> FALSE,
          rect |-> IF idx = <<>> THEN <<>> ELSE <<ms[idx[1] + 1]>>]
    ELSE LET n == parse_usize(inp)
         IN  IF n # <<>> /\ n[1] > 0 /\ n[1] <= Len(ms)
             THEN [fatal |-> FALSE, rect |-> <<ms[n[1]]>>]
             ELSE [fatal |-> TRUE, rect |-> <<>>]

----------------------------------------------------------------------------
(* The polling loop.  st is the loop's state while one iteration runs:      *)
(* [clipped, release_on_exit, prev_ctrl, current_rect], with clip (the      *)
(* platform's clip rectangle) and cmds (the ClipCursor calls made so far).  *)

\* ClipCursor(arg): arg = <<>> is the null pointer, which clears the clip.
\* The platform takes the rectangle when it accepts the call (ok).
ClipCursor(st, arg, ok) ==
    [st EXCEPT !.cmds = Append(@, [arg |-> arg, ok |-> ok]),
               !.clip = IF ok THEN arg ELSE @]

\* MonitorFromPoint(MONITOR_DEFAULTTONEAREST) + GetMonitorInfoW: the possible
\* results, None when either call fails, else the rectangle of a monitor
\* nearest to the point (the one containing it, if any)
get_monitor_rect_for_point(ms, pt) ==
    {<<>>} \cup
    {<<ms[i]>> : i \in {j \in 1..Len(ms) :
                          \A k \in 1..Len(ms) : Dist2(pt, ms[j]) <= Dist2(pt, ms[k])}}

\* mutant: every resolved rectangle counts as a different monitor
RectDiffers_Always(new_rc, cur) == new_rc = new_rc

\* main.rs:208-209
RectDiffers(new_rc, cur) ==
    \/ new_rc.left # cur.left
    \/ new_rc.top # cur.top
    \/ new_rc.right # cur.right
    \/ new_rc.bottom # cur.bottom

\* main.rs:175-179: always reapply clipping if we're supposed to be clipped
Reapply(st, ok) ==
    IF st.clipped /\ ~st.release_on_exit /\ st.current_rect # <<>>
    THEN ClipCursor(st, st.current_rect, ok)
    ELSE st

\* mutant: prev_ctrl is updated only when a key-down event is taken
KeyEdge_PrevInBranch(st, release_key_pressed) ==
    IF release_key_pressed /\ ~st.prev_ctrl
    THEN [st EXCEPT !.release_on_exit = TRUE, !.prev_ctrl = release_key_pressed]
    ELSE st

\* mutant: the request is taken whenever a release key is down
KeyEdge_Level(st, release_key_pressed) ==
    [st EXCEPT !.release_on_exit = IF release_key_pressed THEN TRUE ELSE @,
               !.prev_ctrl = release_key_pressed]

\* mutant: the request is taken on the falling edge
KeyEdge_Falling(st, release_key_pressed) ==
    [st EXCEPT !.release_on_exit =
                   IF ~release_key_pressed /\ st.prev_ctrl THEN TRUE ELSE @,
               !.prev_ctrl = release_key_pressed]

\* main.rs:181-186: release key-down event, then prev_ctrl
KeyEdge(st, release_key_pressed) ==
    [st EXCEPT !.release_on_exit =
                   IF release_key_pressed /\ ~st.prev_ctrl THEN TRUE ELSE @,
               !.prev_ctrl = release_key_pressed]

\* mutant: granting the release also drops the request
EdgeOrRelock_DropsRequest(st, pt, ok) ==
    IF st.current_rect = <<>> THEN st
    ELSE LET rc == st.current_rect[1]
         IN  IF st.clipped /\ st.release_on_exit /\ at_rect_edge(pt, rc)
             THEN [ClipCursor(st, <<>>, ok) EXCEPT
                       !.clipped = FALSE, !.release_on_exit = FALSE]
             ELSE IF ~st.clipped /\ point_in_rect(pt, rc)
                  THEN [ClipCursor(st, <<rc>>, ok) EXCEPT
                            !.clipped = TRUE, !.release_on_exit = FALSE]
                  ELSE st

\* mutant: the state follows the platform's answer to the call
EdgeOrRelock_CheckedResult(st, pt, ok) ==
    IF st.current_rect = <<>> THEN st
    ELSE LET rc == st.current_rect[1]
         IN  IF st.clipped /\ st.release_on_exit /\ at_rect_edge(pt, rc)
             THEN [ClipCursor(st, <<>>, ok) EXCEPT !.clipped = ~ok]
             ELSE IF ~st.clipped /\ point_in_rect(pt, rc)
                  THEN [ClipCursor(st, <<rc>>, ok) EXCEPT
                            !.clipped = ok,
                            !.release_on_exit = IF ok THEN FALSE ELSE @]
                  ELSE st

\* mutant: the release does not wait for the cursor to reach the edge
EdgeOrRelock_NoEdgeCheck(st, pt, ok) ==
    IF st.current_rect = <<>> THEN st
    ELSE LET rc == st.current_rect[1]
         IN  IF st.clipped /\ st.release_on_exit
             THEN [ClipCursor(st, <<>>, ok) EXCEPT !.clipped = FALSE]
             ELSE IF ~st.clipped /\ point_in_rect(pt, rc)
                  THEN [ClipCursor(st, <<rc>>, ok) EXCEPT
                            !.clipped = TRUE, !.release_on_exit = FALSE]
                  ELSE st

\* main.rs:189-201: release at the monitor edge, else re-lock on return
EdgeOrRelock(st, pt, ok) ==
    IF st.current_rect = <<>> THEN st
    ELSE LET rc == st.current_rect[1]
         IN  IF st.clipped /\ st.release_on_exit /\ at_rect_edge(pt, rc)
             THEN [ClipCursor(st, <<>>, ok) EXCEPT !.clipped = FALSE]
             ELSE IF ~st.clipped /\ point_in_rect(pt, rc)
                  THEN [ClipCursor(st, <<rc>>, ok) EXCEPT
                            !.clipped = TRUE, !.release_on_exit = FALSE]
                  ELSE st

\* mutant: a pending release request survives the switch
Switch_KeepsRequest(st, f11_pressed, mon, ok) ==
    IF /\ f11_pressed
       /\ mon # <<>>
       /\ st.current_rect # <<>>
       /\ RectDiffers(mon[1], st.current_rect[1])
    THEN [ClipCursor(st, mon, ok) EXCEPT !.current_rect = mon, !.clipped = TRUE]
    ELSE st

\* mutant: the resolved rectangle is taken without comparing it
Switch_NoCompare(st, f11_pressed, mon, ok) ==
    IF f11_pressed /\ mon # <<>> /\ st.current_rect # <<>>
    THEN [ClipCursor(st, mon, ok) EXCEPT
              !.current_rect = mon, !.clipped = TRUE, !.release_on_exit = FALSE]
    ELSE st

\* mutant: an unset current_rect counts as a different monitor
Switch_FromUnset(st, f11_pressed, mon, ok) ==
    IF /\ f11_pressed
       /\ mon # <<>>
       /\ (st.current_rect = <<>> \/ RectDiffers(mon[1], st.current_rect[1]))
    THEN [ClipCursor(st, mon, ok) EXCEPT
              !.current_rect = mon, !.clipped = TRUE, !.release_on_exit = FALSE]
    ELSE st

\* main.rs:204-218: F11 monitor switching; mon is what
\* get_monitor_rect_for_point returned
Switch(st, f11_pressed, mon, ok) ==
    IF /\ f11_pressed
       /\ mon # <<>>
       /\ st.current_rect # <<>>
       /\ RectDiffers(mon[1], st.current_rect[1])
    THEN [ClipCursor(st, mon, ok) EXCEPT
              !.current_rect = mon, !.clipped = TRUE, !.release_on_exit = FALSE]
    ELSE st

\* mutant: the edge test runs before the key-down event is taken
LoopBody_EdgeBeforeKeys(st, pt, ctrl_pressed, lalt_pressed, f11_pressed, mon, oks) ==
    LET release_key_pressed == ctrl_pressed \/ lalt_pressed
    IN  Switch(KeyEdge(EdgeOrRelock(Reapply(st, oks[1]), pt, oks[2]),
                       release_key_pressed),
               f11_pressed, mon, oks[3])

\* mutant: the keys are handled before the clip is reapplied
LoopBody_KeysFirst(st, pt, ctrl_pressed, lalt_pressed, f11_pressed, mon, oks) ==
    LET release_key_pressed == ctrl_pressed \/ lalt_pressed
    IN  Switch(EdgeOrRelock(Reapply(KeyEdge(st, release_key_pressed), oks[1]),
                            pt, oks[2]),
               f11_pressed, mon, oks[3])

\* main.rs:171-218: one iteration after a successful GetCursorPos
LoopBody(st, pt, ctrl_pressed, lalt_pressed, f11_pressed, mon, oks) ==
    LET release_key_pressed == ctrl_pressed \/ lalt_pressed
    IN  Switch(EdgeOrRelock(KeyEdge(Reapply(st, oks[1]), release_key_pressed),
                            pt, oks[2]),
               f11_pressed, mon, oks[3])

\* mutant: the clip is reapplied before the cursor position is looked at
Iteration_ReapplyBeforePoll(st, got, pt, ctrl_pressed, lalt_pressed, f11_pressed, mon, oks) ==
    IF ~got THEN Reapply(st, oks[1])
    ELSE LoopBody(st, pt, ctrl_pressed, lalt_pressed, f11_pressed, mon, oks)

\* main.rs:157-221: one iteration; got is whether GetCursorPos succeeded
\* (main.rs:162-165: continue when it did not)
Iteration(st, got, pt, ctrl_pressed, lalt_pressed, f11_pressed, mon, oks) ==
    IF ~got THEN st
    ELSE LoopBody(st, pt, ctrl_pressed, lalt_pressed, f11_pressed, mon, oks)

LoopState ==
    [clipped |-> clipped, release_on_exit |-> release_on_exit,
     prev_ctrl |-> prev_ctrl, current_rect |-> current_rect,
     clip |-> platformClip, cmds |-> <<>>]

NoTick ==
    [got |-> FALSE, pt |-> Point(0, 0), ctrl |-> FALSE, lalt |-> FALSE,
     f11 |-> FALSE, mon |-> <<>>]

\* what an iteration starts from
PreState ==
    [clipped |-> clipped, release_on_exit |-> release_on_exit,
     prev_ctrl |-> prev_ctrl, current_rect |-> current_rect,
     clip |-> platformClip, switched |-> switched]

NoPre ==
    [clipped |-> FALSE, release_on_exit |-> FALSE, prev_ctrl |-> FALSE,
     current_rect |-> <<>>, clip |-> <<>>, switched |-> FALSE]

\* no pair: the program itself hands at_rect_edge the polled point and
\* current_rect inside the loop
NoGeo == [pt |-> Point(0, 0), rc |-> Rect(0, 0, 0, 0)]

----------------------------------------------------------------------------
(* Actions *)

Init ==
    /\ pc = "start"
    /\ monitors = <<>>
    /\ current_monitor_idx = <<>>
    /\ input = <<>>
    /\ prev_ctrl = FALSE
    /\ release_on_exit = FALSE
    /\ clipped = FALSE
    /\ current_rect = <<>>
    /\ platformClip = <<>>
    /\ cmds = <<>>
    /\ clipIssued = FALSE
    /\ switched = FALSE
    /\ step = "init"
    /\ tick = NoTick
    /\ pre = NoPre
    /\ geo = NoGeo
    /\ geoOut = <<>>

\* main.rs:92-99: enumerate the monitors, find the one under the cursor
Enumerate ==
    /\ pc = "start"
    /\ \E layout \in Layouts, got \in BOOLEAN :
       \E pt \in IF got /\ layout # <<>> THEN Points ELSE {NoTick.pt} :
          /\ monitors' = get_all_monitors(layout)
          /\ IF monitors' = <<>>
             THEN /\ pc' = "exited"
                  /\ current_monitor_idx' = <<>>
                  /\ tick' = NoTick
             ELSE /\ pc' = "prompt"
                  /\ current_monitor_idx' =
                         get_current_monitor_index(monitors', got, pt)
                  /\ tick' = [NoTick EXCEPT !.got = got, !.pt = pt]
    /\ step' = "enumerate"
    /\ cmds' = <<>>
    /\ UNCHANGED <<input, prev_ctrl, release_on_exit, clipped, current_rect,
                   platformClip, clipIssued, switched, pre>>
    /\ UNCHANGED <<geo, geoOut>>

\* main.rs:116-155: read the line, resolve the selection, initial lock
Select ==
    /\ pc = "prompt"
    /\ \E line \in Lines, ok \in BOOLEAN :
          /\ input' = Trim(line)
          /\ LET r == initial_rect(input', monitors, current_monitor_idx)
             IN  IF r.fatal \/ r.rect = <<>>
                 THEN /\ pc' = "exited"
                      /\ cmds' = <<>>
                      /\ UNCHANGED <<clipped, current_rect, platformClip, clipIssued>>
                 ELSE /\ pc' = "sleep"
                      /\ cmds' = <<[arg |-> r.rect, ok |-> ok]>>
                      /\ clipIssued' = TRUE
                      /\ platformClip' = IF ok THEN r.rect ELSE platformClip
                      /\ clipped' = ok
                      /\ current_rect' = IF ok THEN r.rect ELSE <<>>
    /\ step' = "select"
    /\ UNCHANGED <<monitors, current_monitor_idx, prev_ctrl, release_on_exit,
                   switched, tick, pre>>
    /\ UNCHANGED <<geo, geoOut>>

\* main.rs:117: read_line(...).unwrap() panics on an I/O error
ReadLinePanic ==
    /\ pc = "prompt"
    /\ pc' = "exited"
    /\ step' = "panic"
    /\ cmds' = <<>>
    /\ UNCHANGED <<monitors, current_monitor_idx, input, prev_ctrl, release_on_exit,
                   clipped, current_rect, platformClip, clipIssued, switched,
                   tick, pre>>
    /\ UNCHANGED <<geo, geoOut>>

\* main.rs:158-218: one iteration of the loop, from the poll to the end of
\* the body; oks are the platform's answers to the (up to three) ClipCursor
\* calls of the iteration.  When GetCursorPos fails nothing else is polled.
Tick ==
    /\ pc = "loop"
    /\ \E got \in BOOLEAN :
       \E pt \in IF got THEN Points ELSE {NoTick.pt},
          ctrl \in IF got THEN BOOLEAN ELSE {FALSE},
          lalt \in IF got THEN BOOLEAN ELSE {FALSE},
          f11 \in IF got THEN BOOLEAN ELSE {FALSE},
          oks \in IF got THEN [1..3 -> BOOLEAN] ELSE {[i \in 1..3 |-> FALSE]} :
       \E mon \in IF f11 THEN get_monitor_rect_for_point(monitors, pt) ELSE {<<>>} :
          LET st == Iteration(LoopState, got, pt, ctrl, lalt, f11, mon, oks)
          IN  /\ tick' = [got |-> got, pt |-> pt, ctrl |-> ctrl,
                          lalt |-> lalt, f11 |-> f11, mon |-> mon]
              /\ cmds' = st.cmds
              /\ clipIssued' = (clipIssued \/ st.cmds # <<>>)
              /\ prev_ctrl' = st.prev_ctrl
              /\ release_on_exit' = st.release_on_exit
              /\ clipped' = st.clipped
              /\ current_rect' = st.current_rect
              /\ platformClip' = st.clip
              /\ switched' = IF got THEN st.current_rect # current_rect
                                    ELSE switched
    /\ pre' = PreState
    /\ pc' = "sleep"
    /\ step' = "tick"
    /\ UNCHANGED <<monitors, current_monitor_idx, input>>
    /\ UNCHANGED <<geo, geoOut>>

\* main.rs:220 and 158: thread::sleep, then the next poll.  The loop reads
\* neither input nor current_monitor_idx again, and what the finished
\* iteration polled and did is no longer looked at.
Sleep ==
    /\ pc = "sleep"
    /\ pc' = "loop"
    /\ step' = "sleep"
    /\ cmds' = <<>>
    /\ tick' = NoTick
    /\ pre' = NoPre
    /\ input' = <<>>
    /\ current_monitor_idx' = <<>>
    /\ UNCHANGED <<monitors, prev_ctrl, release_on_exit, clipped, current_rect,
                   platformClip, clipIssued, switched>>
    /\ UNCHANGED <<geo, geoOut>>

\* while the loop sleeps, an external event (a focus change, alt-tab)
\* silently clears the clip
ExternalClear ==
    /\ pc = "loop"
    /\ platformClip # <<>>
    /\ platformClip' = <<>>
    /\ step' = "external"
    /\ UNCHANGED <<pc, monitors, current_monitor_idx, input, prev_ctrl,
                   release_on_exit, clipped, current_rect, clipIssued, switched,
                   cmds, tick, pre>>
    /\ UNCHANGED <<geo, geoOut>>

Next ==
    \/ Enumerate
    \/ Select
    \/ ReadLinePanic
    \/ Tick
    \/ Sleep
    \/ ExternalClear

Spec == Init /\ [][Next]_vars

----------------------------------------------------------------------------
(* at_rect_edge as a function of its arguments, for every rectangle with    *)
(* right > left and bottom > top and every point in or around it            *)

GeoRects ==
    {Rect(0, 0, w, h) : w \in 1..MaxSide, h \in 1..MaxSide}

GeoPoints ==
    LET far == MaxSide \div 2 + 1
    IN  {Point(x, y) : x \in (0 - far)..(MaxSide + far),
                       y \in (0 - far)..(MaxSide + far)}

GeoInit ==
    /\ pc = "start"
    /\ monitors = <<>>
    /\ current_monitor_idx = <<>>
    /\ input = <<>>
    /\ prev_ctrl = FALSE
    /\ release_on_exit = FALSE
    /\ clipped = FALSE
    /\ current_rect = <<>>
    /\ platformClip = <<>>
    /\ cmds = <<>>
    /\ clipIssued = FALSE
    /\ switched = FALSE
    /\ step = "init"
    /\ tick = NoTick
    /\ pre = NoPre
    /\ geo \in [pt : GeoPoints, rc : GeoRects]
    /\ geoOut = <<>>

\* main.rs:80-83 applied to the pair
GeoApply ==
    /\ geoOut = <<>>
    /\ geoOut' = <<at_rect_edge(geo.pt, geo.rc)>>
    /\ UNCHANGED <<pc, monitors, current_monitor_idx, input, prev_ctrl,
                   release_on_exit, clipped, current_rect, platformClip, cmds,
                   clipIssued, switched, step, tick, pre, geo>>

GeoNext == GeoApply

SpecGeo == GeoInit /\ [][GeoNext]_vars

----------------------------------------------------------------------------
(* Vocabulary of the properties.  After a Tick step, pre is the state the   *)
(* iteration started from, tick what it polled, cmds what it issued, and    *)
(* the loop variables hold the state it ended in.                           *)

\* an iteration has just run / has just run with the cursor position read
Ticked == step = "tick"

Polled == step = "tick" /\ tick.got

Locked(s) == s.clipped /\ ~s.release_on_exit

ReleasePending(s) == s.clipped /\ s.release_on_exit

\* activeRect of the iteration, when set
PreRect == pre.current_rect[1]

releaseKeyDown == tick.ctrl \/ tick.lalt

RisingEdge == releaseKeyDown /\ ~pre.prev_ctrl

\* the cursor is strictly more than the margin away from every side
InInterior(pt, rc) ==
    /\ rc.left + 1 < pt.x /\ pt.x < rc.right - 1
    /\ rc.top + 1 < pt.y /\ pt.y < rc.bottom - 1

\* within the margin of a side of rc, as the loop tests it
AtEdge(pt, rc) == ~InInterior(pt, rc)

\* setClip(arg) is among the commands of the step
Issued(arg) == \E i \in 1..Len(cmds) : cmds[i].arg = arg

SameLoopState ==
    /\ clipped = pre.clipped
    /\ release_on_exit = pre.release_on_exit
    /\ current_rect = pre.current_rect

----------------------------------------------------------------------------
(* Properties *)

\* C1: confinement is lifted only by the edge-triggered release step: a step
\* takes clipped from true to false, or issues ClipCursor(null), only if it
\* is a polled iteration in which release_on_exit is true after the key-edge
\* step and the cursor is at the edge of current_rect.
C1_ReleaseOnlyAtEdge ==
    [][ ((clipped /\ ~clipped') \/ (\E i \in 1..Len(cmds') : cmds'[i].arg = <<>>))
        => /\ step' = "tick"
           /\ tick'.got
           /\ release_on_exit \/ ((tick'.ctrl \/ tick'.lalt) /\ ~prev_ctrl)
           /\ current_rect # <<>>
           /\ AtEdge(tick'.pt, current_rect[1]) ]_vars

\* C1 witness: an iteration that ended clipped and issued the clear
C1_Witness ==
    /\ Polled
    /\ pre.clipped /\ ~clipped
    /\ Issued(<<>>)
    /\ current_rect = pre.current_rect

\* C2: from Locked, a rising edge of the release key with the cursor in the
\* interior of current_rect ends with release_on_exit and clipped both true;
\* and an iteration that starts clipped ends clipped unless it observed the
\* cursor at the edge, whatever the release keys do.
C2_PendingUntilEdge ==
    Ticked =>
        /\ (Polled /\ Locked(pre) /\ RisingEdge /\ InInterior(tick.pt, PreRect))
              => (release_on_exit /\ clipped)
        /\ (pre.clipped /\ (~tick.got \/ InInterior(tick.pt, PreRect)))
              => clipped

\* C2 witness: the request made in the interior, reassignment key held too
C2_Witness ==
    /\ Polled
    /\ Locked(pre) /\ RisingEdge /\ InInterior(tick.pt, PreRect)
    /\ tick.f11
    /\ release_on_exit /\ clipped

\* C3: a polled iteration that starts in ReleasePending with the reassignment
\* key up and the cursor at the edge of current_rect issues ClipCursor(null)
\* and ends with clipped false.
C3_ReleaseAtEdge ==
    (Polled /\ ReleasePending(pre) /\ ~tick.f11 /\ AtEdge(tick.pt, PreRect))
        => (Issued(<<>>) /\ ~clipped)

\* C3 witness: released with the cursor at (right - 1, midY)
C3_Witness ==
    /\ Polled
    /\ ReleasePending(pre) /\ ~tick.f11
    /\ tick.pt.x = PreRect.right - 1
    /\ PreRect.top + 1 < tick.pt.y /\ tick.pt.y < PreRect.bottom - 1
    /\ cmds = <<[arg |-> <<>>, ok |-> TRUE]>>
    /\ ~clipped

\* C4: a polled iteration that starts unclipped with current_rect set and
\* the cursor inside it (half-open) issues ClipCursor(current_rect) and ends
\* clipped with release_on_exit false, for every key input; with the cursor
\* outside and the reassignment key up, clipped stays false.
C4_RelockOnReturn ==
    (Polled /\ ~pre.clipped /\ pre.current_rect # <<>>) =>
        /\ (/\ PreRect.left <= tick.pt.x /\ tick.pt.x < PreRect.right
            /\ PreRect.top <= tick.pt.y /\ tick.pt.y < PreRect.bottom)
              => (Issued(pre.current_rect) /\ clipped /\ ~release_on_exit)
        /\ (/\ ~(/\ PreRect.left <= tick.pt.x /\ tick.pt.x < PreRect.right
                 /\ PreRect.top <= tick.pt.y /\ tick.pt.y < PreRect.bottom)
            /\ ~tick.f11)
              => ~clipped

\* C4 witness: the re-lock on return, with a release key and F11 down
C4_Witness ==
    /\ Polled
    /\ ~pre.clipped /\ pre.current_rect # <<>>
    /\ tick.ctrl /\ tick.f11
    /\ cmds = <<[arg |-> pre.current_rect, ok |-> TRUE]>>
    /\ clipped /\ ~release_on_exit

\* the cursor lies on the monitor rc: half-open containment
InRect(pt, rc) ==
    /\ rc.left <= pt.x /\ pt.x < rc.right
    /\ rc.top <= pt.y /\ pt.y < rc.bottom

\* C5, as claimed: with the reassignment key down and a resolved rectangle
\* that differs from current_rect, the iteration retargets and locks; and
\* the following iteration, key still down and cursor on that monitor,
\* changes nothing and reassigns nothing.
C5_AsClaimed ==
    (Polled /\ tick.f11 /\ pre.current_rect # <<>>) =>
        /\ (tick.mon # <<>> /\ tick.mon # pre.current_rect)
              => /\ current_rect = tick.mon
                 /\ cmds[Len(cmds)].arg = tick.mon
                 /\ clipped /\ ~release_on_exit
        /\ (pre.switched /\ InRect(tick.pt, PreRect))
              => /\ SameLoopState
                 /\ Len(cmds) = 1 /\ cmds[1].arg = pre.current_rect

\* C5, amended: as claimed, for a following iteration that sees no rising
\* edge of the release key.
C5_ReassignIdempotent ==
    (Polled /\ tick.f11 /\ pre.current_rect # <<>>) =>
        /\ (tick.mon # <<>> /\ tick.mon # pre.current_rect)
              => /\ current_rect = tick.mon
                 /\ cmds[Len(cmds)].arg = tick.mon
                 /\ clipped /\ ~release_on_exit
        /\ (pre.switched /\ InRect(tick.pt, PreRect) /\ ~RisingEdge)
              => /\ SameLoopState
                 /\ Len(cmds) = 1 /\ cmds[1].arg = pre.current_rect

\* C5 witness: the iteration after a reassignment, F11 and a release key
\* still held, cursor on the new monitor
C5_Witness ==
    /\ Polled
    /\ pre.switched /\ tick.f11 /\ tick.mon = pre.current_rect
    /\ InRect(tick.pt, PreRect)
    /\ releaseKeyDown /\ ~RisingEdge
    /\ SameLoopState

\* C6: when GetCursorPos fails the iteration is skipped: the loop state and
\* prev_ctrl are unchanged, no ClipCursor call is made, no key is read, and
\* the loop goes on to its next iteration.
C6_SkippedTick ==
    (Ticked /\ ~tick.got) =>
        /\ SameLoopState
        /\ prev_ctrl = pre.prev_ctrl
        /\ cmds = <<>>
        /\ platformClip = pre.clip
        /\ tick = NoTick
        /\ pc = "sleep"

\* C6 witness: a skipped iteration in Locked, the clip cleared from outside
C6_Witness ==
    /\ Ticked /\ ~tick.got
    /\ Locked(pre) /\ pre.clip = <<>>
    /\ clipped

\* C7: a polled iteration that starts in Locked issues
\* ClipCursor(current_rect) as its first call, whatever the keys of that
\* iteration are; when the platform takes it and nothing else is issued,
\* the platform's clip is current_rect again.
C7_ReapplyFirst ==
    (Polled /\ Locked(pre)) =>
        /\ cmds # <<>>
        /\ cmds[1].arg = pre.current_rect
        /\ (cmds[1].ok /\ Len(cmds) = 1) => platformClip = pre.current_rect

\* C7 witness: the clip was cleared from outside, and the iteration that
\* first sees the release key down puts it back
C7_Witness ==
    /\ Polled
    /\ Locked(pre) /\ pre.clip = <<>>
    /\ RisingEdge
    /\ platformClip = pre.current_rect

RECURSIVE Pow10(_)
Pow10(k) == IF k = 0 THEN 1 ELSE 10 * Pow10(k - 1)

RECURSIVE WeightedSum(_, _)
\* sum of b[i] * 10^(Len(b) - i) over i in 1..k
WeightedSum(b, k) ==
    IF k = 0 THEN 0
    ELSE DigitVal(b[k]) * Pow10(Len(b) - k) + WeightedSum(b, k - 1)

\* the text s writes the integer n in decimal, with an optional plus sign
WritesInteger(s, n) ==
    LET b == IF s # <<>> /\ s[1] = "+" THEN SubSeq(s, 2, Len(s)) ELSE s
    IN  /\ b # <<>>
        /\ \A i \in 1..Len(b) : b[i] \in Digits
        /\ WeightedSum(b, Len(b)) = n

ValidSelection == \E n \in 1..Len(monitors) : WritesInteger(input, n)

\* at startup tick holds the cursor poll of get_current_monitor_index
NoMonitorUnderCursor ==
    ~tick.got \/ \A i \in 1..Len(monitors) : ~InRect(tick.pt, monitors[i])

\* C8: every fatal startup condition ends the process with no ClipCursor
\* call made and the loop not entered: no monitors; empty input with no
\* monitor under the cursor; non-empty input that is no n in 1..|catalog|.
C8_FatalStartup ==
    /\ pc = "exited" => (~clipIssued /\ cmds = <<>> /\ platformClip = <<>>)
    /\ (step = "enumerate" /\ monitors = <<>>) => pc = "exited"
    /\ (step = "select" /\ input = <<>> /\ NoMonitorUnderCursor) => pc = "exited"
    /\ (step = "select" /\ input # <<>> /\ ~ValidSelection) => pc = "exited"

\* C8 witness: an out-of-range number, with a monitor under the cursor
C8_Witness ==
    /\ step = "select" /\ pc = "exited"
    /\ Len(monitors) = 2 /\ input = <<"3">>
    /\ current_monitor_idx # <<>>
    /\ ~clipIssued

\* the selection resolved to rc: the initial lock is made on it
Selected(rc) == pc = "sleep" /\ cmds # <<>> /\ cmds[1].arg = <<rc>>

\* C9: empty input resolves to catalog[c] when the current index c is
\* present and is fatal otherwise; input writing n with 1 <= n <= N resolves
\* to catalog[n-1] (0-based), whatever c is; any other input is fatal.
C9_SelectionResolution ==
    step = "select" =>
        /\ input = <<>> =>
              IF current_monitor_idx # <<>>
              THEN Selected(monitors[current_monitor_idx[1] + 1])
              ELSE pc = "exited"
        /\ input # <<>> =>
              IF ValidSelection
              THEN \A n \in 1..Len(monitors) :
                      WritesInteger(input, n) => Selected(monitors[n])
              ELSE pc = "exited"

\* C9 witness: "2" with two monitors and the cursor on the first
C9_Witness ==
    /\ step = "select"
    /\ input = <<"2">> /\ Len(monitors) = 2
    /\ current_monitor_idx = <<0>>
    /\ Selected(monitors[2])

\* C10: a polled iteration that starts in Locked, sees no rising edge of the
\* release key and has the reassignment key up leaves current_rect, clipped
\* and release_on_exit as they were and issues exactly one call,
\* ClipCursor(current_rect); with the cursor in the interior, an iteration
\* that starts in Locked ends clipped.
C10_LockedIdempotent ==
    (Polled /\ Locked(pre)) =>
        /\ (~RisingEdge /\ ~tick.f11)
              => /\ SameLoopState
                 /\ Len(cmds) = 1 /\ cmds[1].arg = pre.current_rect
        /\ InInterior(tick.pt, PreRect) => clipped

\* C10 witness: a release key held since an earlier iteration, the cursor
\* at the edge, and still Locked after the one reapplication
C10_Witness ==
    /\ Polled
    /\ Locked(pre) /\ pre.prev_ctrl /\ releaseKeyDown /\ ~tick.f11
    /\ AtEdge(tick.pt, PreRect)
    /\ Locked(LoopState)
    /\ Len(cmds) = 1

\* C11: release requests are edge-triggered on the OR of the two release
\* keys: an iteration takes release_on_exit from false to true only if it
\* polled a release key down with prev_ctrl false, and after every polled
\* iteration prev_ctrl is that iteration's ctrl \/ lalt, whatever else ran;
\* so a key held, or the second key pressed while the first is held, makes
\* no request.
C11_EdgeTriggered ==
    Ticked =>
        /\ (~pre.release_on_exit /\ release_on_exit)
              => (tick.got /\ (tick.ctrl \/ tick.lalt) /\ ~pre.prev_ctrl)
        /\ tick.got => (prev_ctrl <=> (tick.ctrl \/ tick.lalt))
        /\ ~tick.got => (prev_ctrl <=> pre.prev_ctrl)

\* C11 witness: a release key was down before, both are down now, the
\* cursor is at the edge, and no request is made
C11_Witness ==
    /\ Polled
    /\ pre.prev_ctrl /\ tick.ctrl /\ tick.lalt
    /\ Locked(pre) /\ AtEdge(tick.pt, PreRect) /\ ~tick.f11
    /\ ~release_on_exit /\ clipped /\ prev_ctrl

\* the platform confines the cursor to current_rect
PlatformConfined == current_rect # <<>> /\ platformClip = current_rect

\* C12: after the initial lock and at the end of every iteration, clipped
\* is true exactly when the platform's clip is set to current_rect.
C12_AsClaimed ==
    ((step = "select" /\ pc = "sleep") \/ Ticked) => (clipped <=> PlatformConfined)

\* the iteration's start state, as LoopBody takes it
PreLoopState ==
    [clipped |-> pre.clipped, release_on_exit |-> pre.release_on_exit,
     prev_ctrl |-> pre.prev_ctrl, current_rect |-> pre.current_rect,
     clip |-> pre.clip, cmds |-> <<>>]

\* what the iteration comes to when the platform accepts every call
AsIfAccepted ==
    LoopBody(PreLoopState, tick.pt, tick.ctrl, tick.lalt, tick.f11, tick.mon,
             [i \in 1..3 |-> TRUE])

\* the loop state is the one of st, and the same calls were made
EndsAs(st) ==
    /\ clipped = st.clipped
    /\ release_on_exit = st.release_on_exit
    /\ current_rect = st.current_rect
    /\ prev_ctrl = st.prev_ctrl
    /\ Len(cmds) = Len(st.cmds)
    /\ \A i \in 1..Len(cmds) : cmds[i].arg = st.cmds[i].arg

C14_AsClaimed ==
    pc \in {"loop", "sleep"} => current_rect # <<>>

\* P is within 1 unit of one of the four boundary lines of R
NearBoundary(pt, rc) ==
    \/ rc.left - 1 <= pt.x /\ pt.x <= rc.left + 1
    \/ rc.right - 1 <= pt.x /\ pt.x <= rc.right + 1
    \/ rc.top - 1 <= pt.y /\ pt.y <= rc.top + 1
    \/ rc.bottom - 1 <= pt.y /\ pt.y <= rc.bottom + 1

\* C15, as claimed: for every rectangle and every point, inside or outside
\* it, at_rect_edge holds exactly when the point is within 1 unit of one of
\* the rectangle's four boundary lines.
C15_AsClaimed ==
    geoOut # <<>> => (geoOut[1] <=> NearBoundary(geo.pt, geo.rc))

\* C15, amended: for points inside the rectangle at_rect_edge holds exactly
\* when the point is within 1 unit of a boundary line (x <= left+1,
\* x >= right-1, y <= top+1 or y >= bottom-1); for every point outside the
\* rectangle it holds, however far away the point is.
C15_EdgeInsideAlwaysOutside ==
    geoOut # <<>> =>
        IF InRect(geo.pt, geo.rc)
        THEN geoOut[1] <=> NearBoundary(geo.pt, geo.rc)
        ELSE geoOut[1]

\* C15 witness: a point 3 units left of a rectangle with an interior, level
\* with the interior, for which at_rect_edge holds
C15_Witness ==
    /\ geoOut = <<TRUE>>
    /\ geo.pt.x = geo.rc.left - 3
    /\ geo.rc.top + 1 < geo.pt.y /\ geo.pt.y < geo.rc.bottom - 1
    /\ geo.rc.right - geo.rc.left >= 4

\* C16: while the loop runs with current_rect set, clipped or
\* release_on_exit is true; release_on_exit goes from true to false only in
\* an iteration that ends clipped, by a re-lock or a reassignment.
C16_NeverBothFalse ==
    /\ (pc \in {"loop", "sleep"} /\ current_rect # <<>>)
          => (clipped \/ release_on_exit)
    /\ (Ticked /\ pre.release_on_exit /\ ~release_on_exit)
          => /\ clipped
             /\ cmds # <<>> /\ cmds[Len(cmds)].arg = current_rect

\* C16 witness: the loop stays Released, request still standing, while the
\* cursor is outside current_rect and no key is down
C16_Witness ==
    /\ Polled
    /\ ~pre.clipped /\ pre.current_rect # <<>>
    /\ ~releaseKeyDown /\ ~tick.f11
    /\ ~clipped /\ release_on_exit

\* C17: a polled iteration that starts in Locked, sees a rising edge of the
\* release key and the cursor at the edge of current_rect, reassignment key
\* up, issues ClipCursor(current_rect), then ClipCursor(null), and ends
\* with clipped false.
C17_RequestAndReleaseInOneTick ==
    (Polled /\ Locked(pre) /\ RisingEdge /\ AtEdge(tick.pt, PreRect) /\ ~tick.f11)
        => /\ Len(cmds) = 2
           /\ cmds[1].arg = pre.current_rect
           /\ cmds[2].arg = <<>>
           /\ ~clipped /\ release_on_exit

\* C17 witness: request and release in one iteration, cursor inside
\* current_rect on its last column
C17_Witness ==
    /\ Polled
    /\ Locked(pre) /\ RisingEdge /\ ~tick.f11
    /\ InRect(tick.pt, PreRect) /\ tick.pt.x = PreRect.right - 1
    /\ Len(cmds) = 2 /\ cmds[2].arg = <<>>
    /\ ~clipped

\* the iteration re-locked on return / retargeted current_rect
Relocked == ~pre.clipped /\ clipped /\ current_rect = pre.current_rect

Reassigned == current_rect # pre.current_rect

\* C18: an iteration that re-locks or reassigns ends with release_on_exit
\* false and, when a release key was down, prev_ctrl true, rising edge or
\* not; with prev_ctrl true a key still down makes no request; and prev_ctrl
\* goes back to false only in a polled iteration that sees the keys up.
C18_PressDiscarded ==
    Ticked =>
        /\ (Polled /\ (Relocked \/ Reassigned))
              => (~release_on_exit /\ (releaseKeyDown => prev_ctrl))
        /\ (Polled /\ pre.prev_ctrl /\ releaseKeyDown /\ ~pre.release_on_exit)
              => ~release_on_exit
        /\ (pre.prev_ctrl /\ ~prev_ctrl) => (tick.got /\ ~releaseKeyDown)

\* C18 witness: the reassignment of an iteration that also saw the release
\* key go down
C18_Witness ==
    /\ Polled
    /\ RisingEdge /\ Reassigned
    /\ ~release_on_exit /\ prev_ctrl /\ clipped

\* what the iteration comes to with the reassignment key up
AsIfF11Up ==
    LoopBody(PreLoopState, tick.pt, tick.ctrl, tick.lalt, FALSE, <<>>,
             [i \in 1..3 |-> TRUE])

\* C19: a step of the running loop changes current_rect only if it is an
\* iteration with the reassignment key down, in which the platform resolves
\* a rectangle for the cursor point that differs from current_rect, and the
\* new value is that rectangle; and with the cursor on the monitor of
\* current_rect an iteration with the key held ends exactly as the same
\* iteration with the key up.
C19_OnlyReassignmentRetargets ==
    /\ [][ (pc \in {"loop", "sleep"} /\ current_rect' # current_rect)
              => /\ step' = "tick" /\ tick'.got /\ tick'.f11
                 /\ tick'.mon # <<>>
                 /\ tick'.mon \in get_monitor_rect_for_point(monitors, tick'.pt)
                 /\ tick'.mon # current_rect
                 /\ current_rect' = tick'.mon ]_vars
    /\ []( (Polled /\ tick.f11 /\ pre.current_rect # <<>>
                   /\ InRect(tick.pt, PreRect))
              => EndsAs(AsIfF11Up) )

\* C19 witness: F11 held with the cursor on the monitor of current_rect
C19_Witness ==
    /\ Polled
    /\ pre.current_rect # <<>>
    /\ tick.f11 /\ tick.mon = pre.current_rect
    /\ InRect(tick.pt, PreRect)
    /\ current_rect = pre.current_rect

\* C20: an iteration that starts with current_rect unset issues no
\* ClipCursor call and leaves clipped false and current_rect unset, whatever
\* it polls; only release_on_exit and prev_ctrl change.
C20_InertWhenUnset ==
    (Ticked /\ pre.current_rect = <<>>) =>
        /\ cmds = <<>>
        /\ ~pre.clipped /\ ~clipped
        /\ current_rect = <<>>
        /\ platformClip = pre.clip

\* C20 witness: F11 held over a monitor and a release key pressed, with
\* current_rect unset: the request is noted and nothing else happens
C20_Witness ==
    /\ Polled
    /\ pre.current_rect = <<>>
    /\ tick.f11 /\ tick.mon # <<>>
    /\ ~pre.release_on_exit /\ release_on_exit /\ prev_ctrl
    /\ cmds = <<>>

====
